---- MODULE Spec2Model ----
(***************************************************************************)
(* Model of mdeeds/ear: the snapshot request/response protocol between the *)
(* control thread (EarDataRequester, OscRender in script.js) and the       *)
(* real-time thread (EarProcessor in script.js, OscWorker in               *)
(* osc-worker.js), the render loops that drive it, the filters of the      *)
(* EarProcessor's bank (IIRBandBoostFilter, DelayedIIRBandBoostFilterPair) *)
(* and the RotatingAudioBuffer of osc-worker.js.                           *)
(***************************************************************************)
EXTENDS Integers, Sequences, FiniteSets, TLC

\* ---------------------------------------------------------------- bounds
\* calls of getEarPowerData / _getOscData explored per protocol object
MaxRequests == 2
\* replies reaching a control-thread handler that no worker produced
MaxStray == 1
\* samples processed by EarProcessor.process in one behaviour, and per block
MaxSamples == 1
MaxBlockLen == 1
\* slots of the RotatingAudioBuffer (sampleRate in the code)
RingCapacity == 3
\* samples written to the RotatingAudioBuffer in one behaviour
MaxWritten == 5
\* filters of the bank (88 in the code) and floats of a waveform buffer (128)
NumFilters == 2
OscBufferLen == 2
\* samples handed to one DelayedIIRBandBoostFilterPair in one behaviour
MaxPairSamples == 5

VARIABLES
  component,       \* the object a behaviour follows; the three share no state
  \* EarDataRequester (script.js 2-74)
  earCounter,      \* this.requestIdCounter
  earPending,      \* this.pendingRequests: requestId -> promise (its ordinal)
  earOnmessage,    \* this.port.onmessage is the handler (TRUE) or null (FALSE)
  earPromises,     \* the promises returned by getEarPowerData, in call order
  earWarnings,     \* console.warn calls of _handleWorkerMessage
  earPortIn,       \* messages posted to the EarProcessor, not yet handled
  earPortOut,      \* messages posted to the EarDataRequester, not yet handled
  earStray,        \* stray replies put on the port so far
  earBuffers,      \* per ArrayBuffer (by tag): the threads it is attached on
  \* EarProcessor (script.js 526-584)
  filters,         \* this.filters, indexed 0..NumFilters-1
  processed,       \* samples processed so far
  earLastProcess,  \* the last process call: "no call" yet, or it returned
                   \* with "no input" (no channel, empty block) or "input"
  \* OscRender (script.js 202-307)
  oscCounter, oscPending, oscPromises, oscWarnings, oscPortIn, oscPortOut,
  oscStray, oscBuffers,
  \* RotatingAudioBuffer (osc-worker.js 1-24)
  buffer,          \* this.buffer, indexed 0..length-1
  writeIndex,      \* this.writeIndex
  written,         \* every sample write stored so far, in order
  targetBuffer,    \* the array the last read filled
  oscLastProcess,  \* the same for OscWorker.process
  \* DelayedIIRBandBoostFilterPair (script.js 471-524)
  pair,            \* one estimator: its fields, once constructed
  pairInputs,      \* the samples handed to its process so far, in order
  \* renderLoop (script.js 184-189), OscRender._renderLoop (238-264)
  earLoop,         \* where renderLoop is: "frame", "awaiting" or "stopped"
  oscLoop          \* the same for OscRender._renderLoop

earVars == <<earCounter, earPending, earOnmessage, earPromises, earWarnings,
             earPortIn, earPortOut, earStray, earBuffers, filters, processed,
             earLastProcess>>
oscVars == <<oscCounter, oscPending, oscPromises, oscWarnings, oscPortIn,
             oscPortOut, oscStray, oscBuffers>>
ringVars == <<buffer, writeIndex, written, targetBuffer, oscLastProcess>>
pairVars == <<pair, pairInputs>>
loopVars == <<earLoop, oscLoop>>
vars == <<component, earVars, oscVars, ringVars, pairVars, loopVars>>

\* ------------------------------------------------------------- JS helpers
\* obj.field of a message object: a missing key reads as undefined
Has(obj, field) == field \in DOMAIN obj
\* Map.prototype.set / delete / clear
MapSet(map, key, value) ==
  [k \in (DOMAIN map) \cup {key} |-> IF k = key THEN value ELSE map[k]]
MapDelete(map, key) == [k \in (DOMAIN map) \ {key} |-> map[k]]
EmptyMap == <<>>
\* the sequence s without its i-th element
RemoveAt(s, i) == [j \in 1..(Len(s) - 1) |-> IF j < i THEN s[j] ELSE s[j + 1]]
\* a % b of JavaScript: the sign of the dividend
JsMod(a, b) == IF a >= 0 THEN a % b ELSE 0 - ((0 - a) % b)

\* NaN, which is also what undefined becomes in arithmetic and what a
\* Float32Array stores for it: a value no computation of the model reaches
NaN == 0 - 1000000
IsNaN(v) == v = NaN
\* a + b, a - b, a * b and a % b on numbers that may be NaN
Plus(a, b) == IF IsNaN(a) \/ IsNaN(b) THEN NaN ELSE a + b
Minus(a, b) == IF IsNaN(a) \/ IsNaN(b) THEN NaN ELSE a - b
Times(a, b) == IF IsNaN(a) \/ IsNaN(b) THEN NaN ELSE a * b
Remainder(a, b) == IF IsNaN(a) \/ IsNaN(b) \/ b = 0 THEN NaN ELSE JsMod(a, b)
\* a value carried in units of 1/scale, rounded down to units
Rounded(a, scale) == IF IsNaN(a) THEN NaN ELSE a \div scale

\* new ArrayBuffer(n * Float32Array.BYTES_PER_ELEMENT): n zero floats. An
\* ArrayBuffer has a byteLength and no length property; tag tells the
\* allocations apart.
Zeros(n) == [i \in 0..(n - 1) |-> 0]
NewArrayBuffer(tag, n) == [tag |-> tag, byteLength |-> n * 4, data |-> Zeros(n)]

\* Which threads can reach the memory of each ArrayBuffer: access maps the
\* buffer's tag to the set of threads ("control", "realtime") on which it is
\* attached. new ArrayBuffer on a thread:
Allocate(access, tag, thread) == MapSet(access, tag, {thread})
\* mutant of Transfer: postMessage without a transfer list, the sender keeps
\* its buffer
Transfer_Copy(access, tag, thread) == access

\* port.postMessage(message, [buffer]): the buffer of the transfer list is
\* detached on the sending thread
Transfer(access, tag, thread) == [access EXCEPT ![tag] = @ \ {thread}]
\* the message event hands event.data.buffer to the receiving thread
Receive(access, tag, thread) ==
  MapSet(access, tag,
         (IF tag \in DOMAIN access THEN access[tag] ELSE {}) \cup {thread})

\* new Error(message), and the error a throwing postMessage raises
Error(message) == [message |-> message]
SendError == Error("postMessage failed")

\* a promise: the request id it was created for, whether postMessage
\* returned normally, and the resolve/reject calls made on it so far
NewPromise(id) == [requestId |-> id, sent |-> FALSE, settled |-> <<>>]
Resolve(p, value) ==
  [p EXCEPT !.settled = Append(@, [kind |-> "resolve", value |-> value])]
Reject(p, error) ==
  [p EXCEPT !.settled = Append(@, [kind |-> "reject", value |-> error])]
\* the request's state in the sense of spec 4.5
RequestState(p) ==
  IF p.settled # <<>>
    THEN (IF p.settled[1].kind = "resolve" THEN "Resolved" ELSE "Rejected")
    ELSE (IF p.sent THEN "Sent" ELSE "Created")

\* mutant of PostIncrement: the counter is read and not increased
PostIncrement_Missing(counter) == counter

\* this.requestIdCounter++ (script.js 41, 288): the counter afterwards; the
\* request gets the value before
PostIncrement(counter) == counter + 1

\* ------------------------------------------------------- EarDataRequester
\* the message getEarPowerData posts (script.js 49-53)
GetDataMessage(id, buf) ==
  [message |-> "get-data", buffer |-> buf, requestId |-> id]

\* mutant of getEarPowerData: the catch block rejects the promise and
\* leaves its entry in pendingRequests
EarDataRequester_getEarPowerData_KeepsFailed(ok) ==
  /\ earCounter < MaxRequests
  /\ LET requestId == earCounter
         ordinal == Len(earPromises) + 1
         bufferToFill == NewArrayBuffer(ordinal, NumFilters)
         registered == MapSet(earPending, requestId, ordinal)
     IN /\ earCounter' = PostIncrement(earCounter)
        /\ earPending' = registered
        /\ IF ok
             THEN /\ earPortIn' =
                       Append(earPortIn, GetDataMessage(requestId, bufferToFill))
                  /\ earPromises' =
                       Append(earPromises,
                              [NewPromise(requestId) EXCEPT !.sent = TRUE])
                  /\ earBuffers' =
                       Transfer(Allocate(earBuffers, ordinal, "control"),
                                ordinal, "control")
             ELSE /\ earPortIn' = earPortIn
                  /\ earPromises' =
                       Append(earPromises,
                              Reject(NewPromise(requestId), SendError))
                  /\ earBuffers' = Allocate(earBuffers, ordinal, "control")
  /\ UNCHANGED <<earOnmessage, earWarnings, earPortOut, earStray, filters,
                 processed, earLastProcess, oscVars, ringVars, pairVars>>

\* getEarPowerData (script.js 39-60); ok = FALSE: port.postMessage throws
EarDataRequester_getEarPowerData(ok) ==
  /\ earCounter < MaxRequests
  /\ LET requestId == earCounter
         ordinal == Len(earPromises) + 1
         bufferToFill == NewArrayBuffer(ordinal, NumFilters)
         registered == MapSet(earPending, requestId, ordinal)
     IN /\ earCounter' = PostIncrement(earCounter)
        /\ IF ok
             THEN /\ earPending' = registered
                  /\ earPortIn' =
                       Append(earPortIn, GetDataMessage(requestId, bufferToFill))
                  /\ earPromises' =
                       Append(earPromises,
                              [NewPromise(requestId) EXCEPT !.sent = TRUE])
                  /\ earBuffers' =
                       Transfer(Allocate(earBuffers, ordinal, "control"),
                                ordinal, "control")
             ELSE /\ earPending' = MapDelete(registered, requestId)
                  /\ earPortIn' = earPortIn
                  /\ earPromises' =
                       Append(earPromises,
                              Reject(NewPromise(requestId), SendError))
                  /\ earBuffers' = Allocate(earBuffers, ordinal, "control")
  /\ UNCHANGED <<earOnmessage, earWarnings, earPortOut, earStray, filters,
                 processed, earLastProcess, oscVars, ringVars, pairVars>>

\* the smallest key of a non-empty map
Oldest(map) == CHOOSE k \in DOMAIN map : \A j \in DOMAIN map : k <= j

\* mutant of EarHandled: the entry stays in pendingRequests when resolved
EarHandled_NoDelete(data) ==
  IF Has(data, "message") /\ data.message = "data" /\ Has(data, "requestId")
    THEN IF data.requestId \in DOMAIN earPending
           THEN /\ earPending' = earPending
                /\ earPromises' =
                     [earPromises EXCEPT ![earPending[data.requestId]] =
                        Resolve(@, data.buffer)]
                /\ earWarnings' = earWarnings
           ELSE /\ earWarnings' = earWarnings + 1
                /\ UNCHANGED <<earPending, earPromises>>
    ELSE UNCHANGED <<earPending, earPromises, earWarnings>>

\* mutant of EarHandled: replies are taken to arrive in request order, so
\* the oldest pending request is resolved whatever id the reply carries
EarHandled_InOrder(data) ==
  IF Has(data, "message") /\ data.message = "data" /\ Has(data, "requestId")
    THEN IF data.requestId \in DOMAIN earPending
           THEN /\ earPending' = MapDelete(earPending, Oldest(earPending))
                /\ earPromises' =
                     [earPromises EXCEPT ![earPending[Oldest(earPending)]] =
                        Resolve(@, data.buffer)]
                /\ earWarnings' = earWarnings
           ELSE /\ earWarnings' = earWarnings + 1
                /\ UNCHANGED <<earPending, earPromises>>
    ELSE UNCHANGED <<earPending, earPromises, earWarnings>>

\* what _handleWorkerMessage does with event.data = data (script.js 19-32)
EarHandled(data) ==
  IF Has(data, "message") /\ data.message = "data" /\ Has(data, "requestId")
    THEN IF data.requestId \in DOMAIN earPending
           THEN /\ earPending' = MapDelete(earPending, data.requestId)
                /\ earPromises' =
                     [earPromises EXCEPT ![earPending[data.requestId]] =
                        Resolve(@, data.buffer)]
                /\ earWarnings' = earWarnings
           ELSE /\ earWarnings' = earWarnings + 1
                /\ UNCHANGED <<earPending, earPromises>>
    ELSE UNCHANGED <<earPending, earPromises, earWarnings>>

\* the port delivers its i-th queued message to _handleWorkerMessage
\* (script.js 16, 19-32)
EarDataRequester_handleWorkerMessage(i) ==
  /\ earOnmessage
  /\ i \in DOMAIN earPortOut
  /\ EarHandled(earPortOut[i])
  /\ earPortOut' = RemoveAt(earPortOut, i)
  /\ earBuffers' = Receive(earBuffers, earPortOut[i].buffer.tag, "control")
  /\ UNCHANGED <<earCounter, earOnmessage, earPortIn, earStray, filters,
                 processed, earLastProcess, oscVars, ringVars, pairVars>>

\* a message delivered after destroy() set port.onmessage = null
\* (script.js 68): no listener runs
EarPortNoListener(i) ==
  /\ ~earOnmessage
  /\ i \in DOMAIN earPortOut
  /\ earPortOut' = RemoveAt(earPortOut, i)
  /\ UNCHANGED <<earCounter, earPending, earOnmessage, earPromises,
                 earWarnings, earPortIn, earStray, earBuffers, filters,
                 processed, earLastProcess, oscVars, ringVars, pairVars>>

\* mutant of destroy: the map is cleared and no pending promise is rejected
EarDataRequester_destroy_ClearOnly ==
  /\ earOnmessage' = FALSE
  /\ earPending' = EmptyMap
  /\ UNCHANGED <<earCounter, earPromises, earWarnings, earPortIn, earPortOut,
                 earStray, earBuffers, filters, processed, earLastProcess,
                 oscVars, ringVars, pairVars>>

\* destroy (script.js 66-73)
EarDataRequester_destroy ==
  /\ earOnmessage' = FALSE
  /\ earPromises' =
       [k \in DOMAIN earPromises |->
          IF \E id \in DOMAIN earPending : earPending[id] = k
            THEN Reject(earPromises[k],
                        Error("EarDataRequester instance was destroyed."))
            ELSE earPromises[k]]
  /\ earPending' = EmptyMap
  /\ UNCHANGED <<earCounter, earWarnings, earPortIn, earPortOut, earStray,
                 earBuffers, filters, processed, earLastProcess, oscVars,
                 ringVars, pairVars>>

\* the replies a handler on the control thread may be handed besides the
\* worker's own: any request id (issued or not), or another kind of message
StrayReplies ==
  {[message |-> "data", buffer |-> NewArrayBuffer(0, NumFilters),
    requestId |-> id] : id \in 0..MaxRequests}
  \cup {[message |-> "other", buffer |-> NewArrayBuffer(0, NumFilters),
         requestId |-> id] : id \in {0}}

\* a duplicate, stale or unknown reply arrives at the requester's port
\* (the event of script.js 19-20)
EarStrayReply(data) ==
  /\ earStray < MaxStray
  /\ earStray' = earStray + 1
  /\ earPortOut' = Append(earPortOut, data)
  /\ UNCHANGED <<earCounter, earPending, earOnmessage, earPromises,
                 earWarnings, earPortIn, earBuffers, filters, processed,
                 earLastProcess, oscVars, ringVars, pairVars>>

\* ----------------------------------------------------------- EarProcessor
\* DelayedIIRBandBoostFilterPair.getInstantPower (script.js 521-523)
getInstantPower(f) == f.powerMean

\* the message the handler posts back (script.js 539-543)
DataMessage(id, buf) == [message |-> "data", buffer |-> buf, requestId |-> id]

\* mutant of EarProcessorReplies: the loop that fills the buffer is off by
\* one filter
EarProcessorReplies_OffByOne(data) ==
  IF Has(data, "message") /\ data.message = "get-data"
    THEN IF ~Has(data, "buffer")
           THEN <<>>
           ELSE <<DataMessage(
                    data.requestId,
                    [data.buffer EXCEPT !.data =
                       [i \in 0..(NumFilters - 1) |->
                          getInstantPower(filters[(i + 1) % NumFilters])]])>>
    ELSE <<>>

\* mutant of EarProcessorReplies: a process call for one sample runs
\* between the read of the first filter and the reads of the others
EarProcessorReplies_MidBlock(data) ==
  IF Has(data, "message") /\ data.message = "get-data"
    THEN IF ~Has(data, "buffer")
           THEN <<>>
           ELSE <<DataMessage(
                    data.requestId,
                    [data.buffer EXCEPT !.data =
                       [i \in 0..(NumFilters - 1) |->
                          IF i = 0
                            THEN getInstantPower(filters[i])
                            ELSE getInstantPower(filters[i])
                                   + filters[i].midiNoteNumber]])>>
    ELSE <<>>

\* what port.onmessage posts for e.data = data (script.js 529-545): the
\* sequence of messages it appends to the port
EarProcessorReplies(data) ==
  IF Has(data, "message") /\ data.message = "get-data"
    THEN IF ~Has(data, "buffer")
           THEN <<>>
           ELSE <<DataMessage(
                    data.requestId,
                    [data.buffer EXCEPT !.data =
                       [i \in 0..(NumFilters - 1) |->
                          getInstantPower(filters[i])]])>>
    ELSE <<>>

\* the threads the buffers are attached on after the real-time thread
\* handled data and posted replies: the buffer arrives with the event and is
\* in the transfer list of the reply (script.js 543, osc-worker.js 44)
HandledOnRealtime(access, data, replies) ==
  IF Has(data, "buffer")
    THEN LET arrived == Receive(access, data.buffer.tag, "realtime")
         IN IF replies # <<>>
              THEN Transfer(arrived, data.buffer.tag, "realtime")
              ELSE arrived
    ELSE access

\* the EarProcessor handles the oldest queued request (script.js 529-545)
EarProcessor_onmessage ==
  /\ earPortIn # <<>>
  /\ earPortOut' = earPortOut \o EarProcessorReplies(Head(earPortIn))
  /\ earPortIn' = Tail(earPortIn)
  /\ earBuffers' = HandledOnRealtime(earBuffers, Head(earPortIn),
                                     EarProcessorReplies(Head(earPortIn)))
  /\ UNCHANGED <<earCounter, earPending, earOnmessage, earPromises,
                 earWarnings, earStray, filters, processed, earLastProcess,
                 oscVars, ringVars, pairVars>>

\* the filter bank after numSamples samples went through every filter
\* (script.js 574-580). powerMean stands for the smoothed power: 0 at
\* construction and, per sample, stepped by an amount that differs from
\* filter to filter.
BankAfter(numSamples) ==
  [i \in DOMAIN filters |->
     [filters[i] EXCEPT
        !.powerMean = @ + numSamples * filters[i].midiNoteNumber]]

\* EarProcessor.process (script.js 557-583) with inputs[0] = input, the
\* sequence of the input's channels, each a sequence of samples
EarProcessor_process(input) ==
  /\ UNCHANGED <<earCounter, earPending, earOnmessage, earPromises,
                 earWarnings, earPortIn, earPortOut, earStray, earBuffers,
                 oscVars, ringVars, pairVars>>
  /\ IF Len(input) = 0
       THEN /\ UNCHANGED <<filters, processed>>
            /\ earLastProcess' = "no input"
       ELSE LET inputChannel == input[1] IN
            IF Len(inputChannel) = 0
              THEN /\ UNCHANGED <<filters, processed>>
                   /\ earLastProcess' = "no input"
              ELSE /\ processed + Len(inputChannel) <= MaxSamples
                   /\ processed' = processed + Len(inputChannel)
                   /\ filters' = BankAfter(Len(inputChannel))
                   /\ earLastProcess' = "input"

\* ----------------------------------------------------- IIRBandBoostFilter
\* Samples and filter outputs are integers; coefficients are carried in
\* thousandths and frequencies in millihertz.
CoefScale == 1000

RECURSIVE Pow2(_)
Pow2(k) == IF k = 0 THEN 1 ELSE 2 * Pow2(k - 1)
\* 2^(r/12) in thousandths, r = 0..11
Semitone == <<1000, 1059, 1122, 1189, 1260, 1335, 1414, 1498, 1587, 1682,
              1782, 1888>>
\* this.f0 = 440 * 2^((midiNoteNumber - 69) / 12) (script.js 382), in mHz
F0(midiNoteNumber) ==
  LET octave == (midiNoteNumber - 69) \div 12
      r == (midiNoteNumber - 69) % 12
  IN IF octave >= 0
       THEN 440 * Pow2(octave) * Semitone[r + 1]
       ELSE (440 * Semitone[r + 1]) \div Pow2(0 - octave)

\* this.f0 <= 0 || this.f0 >= this.Fs / 2 (script.js 387)
OutOfRange(midiNoteNumber, samplingFrequency) ==
  \/ F0(midiNoteNumber) <= 0
  \/ 2 * F0(midiNoteNumber) >= samplingFrequency * 1000

\* mutant of IdentityCoefficients: the branch sets b0, b1 and b2 and leaves
\* a1 and a2 unset
IdentityCoefficients_Unset ==
  [b0 |-> CoefScale, b1 |-> 0, b2 |-> 0, a1 |-> NaN, a2 |-> NaN]

\* the coefficients of the pass-through branch (script.js 390-394)
IdentityCoefficients ==
  [b0 |-> CoefScale, b1 |-> 0, b2 |-> 0, a1 |-> 0, a2 |-> 0]

\* the coefficients the else branch computes (script.js 396-432) for the
\* notes and sampling frequencies of the model, rounded to thousandths;
\* a0_rbj_den is 1 + alpha / A > 1 there, so line 422 is never taken
PeakingCoefficients(midiNoteNumber, samplingFrequency) ==
  CASE midiNoteNumber = 105 /\ samplingFrequency = 8000 ->
         [b0 |-> 1008, b1 |-> 1855, b2 |-> 987, a1 |-> 1855, a2 |-> 995]
    [] midiNoteNumber = 105 /\ samplingFrequency = 44100 ->
         [b0 |-> 1010, b1 |-> 0 - 1748, b2 |-> 983, a1 |-> 0 - 1748,
          a2 |-> 993]
    [] midiNoteNumber = 108 /\ samplingFrequency = 44100 ->
         [b0 |-> 1012, b1 |-> 0 - 1648, b2 |-> 980, a1 |-> 0 - 1648,
          a2 |-> 992]

\* new IIRBandBoostFilter(midiNoteNumber, samplingFrequency)
\* (script.js 380-441)
IIRBandBoostFilter(midiNoteNumber, samplingFrequency) ==
  LET c == IF OutOfRange(midiNoteNumber, samplingFrequency)
             THEN IdentityCoefficients
             ELSE PeakingCoefficients(midiNoteNumber, samplingFrequency)
  IN [b0 |-> c.b0, b1 |-> c.b1, b2 |-> c.b2, a1 |-> c.a1, a2 |-> c.a2,
      x1 |-> 0, x2 |-> 0, y1 |-> 0, y2 |-> 0]

\* IIRBandBoostFilter.process (script.js 448-465): the output sample and
\* the filter afterwards
IIRBandBoostFilter_process(f, inputSample) ==
  LET x0 == inputSample
      outputSample ==
        Rounded(Minus(Minus(Plus(Plus(Times(f.b0, x0), Times(f.b1, f.x1)),
                                 Times(f.b2, f.x2)),
                            Times(f.a1, f.y1)),
                      Times(f.a2, f.y2)),
                CoefScale)
  IN [outputSample |-> outputSample,
      filter |-> [f EXCEPT !.x2 = f.x1, !.x1 = x0,
                           !.y2 = f.y1, !.y1 = outputSample]]

\* ------------------------------------------ DelayedIIRBandBoostFilterPair
\* delayInSamples = Math.round((Fs / f0) / 4) (script.js 491-492), Math.round
\* rounding halves up
DelayInSamples(midiNoteNumber, samplingFrequency) ==
  (2 * samplingFrequency * 1000 + 4 * F0(midiNoteNumber))
    \div (8 * F0(midiNoteNumber))

\* new DelayedIIRBandBoostFilterPair(midiNoteNumber, samplingFrequency)
\* (script.js 478-499)
DelayedIIRBandBoostFilterPair(midiNoteNumber, samplingFrequency) ==
  [constructed |-> TRUE,
   midiNoteNumber |-> midiNoteNumber,
   Fs |-> samplingFrequency,
   filter1 |-> IIRBandBoostFilter(midiNoteNumber, samplingFrequency),
   filter2 |-> IIRBandBoostFilter(midiNoteNumber, samplingFrequency),
   filter1Out |-> 0,
   filter2Out |-> 0,
   delayBuffer |-> Zeros(DelayInSamples(midiNoteNumber, samplingFrequency)),
   delayIndex |-> 0,
   powerMean |-> 0]

\* a typed array read and written at index: undefined, and no store,
\* outside 0..length-1
ArrayAt(array, index) == IF index \in DOMAIN array THEN array[index] ELSE NaN
ArrayStore(array, index, value) ==
  IF index \in DOMAIN array THEN [array EXCEPT ![index] = value] ELSE array
ArrayLength(array) == Cardinality(DOMAIN array)

\* mutant of FedToFilter2: the input is stored in the delay line before
\* the line is read
FedToFilter2_AfterStore(p, inputSample) ==
  ArrayAt(ArrayStore(p.delayBuffer, p.delayIndex, inputSample), p.delayIndex)

\* this.delayBuffer[this.delayIndex], the sample process hands to filter2
\* (script.js 509)
FedToFilter2(p, inputSample) == ArrayAt(p.delayBuffer, p.delayIndex)

\* alpha * powerMean + (1 - alpha) * nowPower with alpha = 0.95
\* (script.js 515-516)
SmoothedPower(powerMean, nowPower) ==
  Rounded(Plus(Times(95, powerMean), Times(5, nowPower)), 100)

\* DelayedIIRBandBoostFilterPair.process (script.js 506-519): the pair
\* after process(inputSample)
PairAfter(p, inputSample) ==
  LET first == IIRBandBoostFilter_process(p.filter1, inputSample)
      second == IIRBandBoostFilter_process(p.filter2,
                                           FedToFilter2(p, inputSample))
      filter1Out == first.outputSample
      filter2Out == second.outputSample
      nowPower == Plus(Times(filter1Out, filter1Out),
                       Times(filter2Out, filter2Out))
  IN [p EXCEPT
        !.filter1 = first.filter,
        !.filter2 = second.filter,
        !.filter1Out = filter1Out,
        !.filter2Out = filter2Out,
        !.delayBuffer = ArrayStore(p.delayBuffer, p.delayIndex, inputSample),
        !.delayIndex = Remainder(Plus(p.delayIndex, 1),
                                 ArrayLength(p.delayBuffer)),
        !.powerMean = SmoothedPower(p.powerMean, nowPower)]

\* the constructor call that builds the pair a behaviour follows
DelayedIIRBandBoostFilterPair_constructor(midiNoteNumber, samplingFrequency) ==
  /\ ~pair.constructed
  /\ pair' = DelayedIIRBandBoostFilterPair(midiNoteNumber, samplingFrequency)
  /\ UNCHANGED <<pairInputs, earVars, oscVars, ringVars>>

\* process(inputSample) on the pair
DelayedIIRBandBoostFilterPair_process(inputSample) ==
  /\ pair.constructed
  /\ Len(pairInputs) < MaxPairSamples
  /\ pair' = PairAfter(pair, inputSample)
  /\ pairInputs' = Append(pairInputs, inputSample)
  /\ UNCHANGED <<earVars, oscVars, ringVars>>

\* ---------------------------------------------------- RotatingAudioBuffer
\* write (osc-worker.js 8-13): the ring after data[from..] is written
RECURSIVE WriteFrom(_, _, _, _)
WriteFrom(buf, index, data, from) ==
  IF from > Len(data)
    THEN [buffer |-> buf, writeIndex |-> index]
    ELSE WriteFrom([buf EXCEPT ![index] = data[from]],
                   (index + 1) % RingCapacity, data, from + 1)

\* mutant of ReadIndex: the loop starts at writeIndex, the oldest slot,
\* whatever the length of the target
RECURSIVE ReadIndex_FromOldest(_, _)
ReadIndex_FromOldest(targetLength, i) ==
  IF i = 0
    THEN writeIndex
    ELSE JsMod(ReadIndex_FromOldest(targetLength, i - 1) + 1, RingCapacity)

\* mutant of ReadIndex: the start is writeIndex - targetLength without the
\* length added before the remainder is taken
RECURSIVE ReadIndex_NoWrap(_, _)
ReadIndex_NoWrap(targetLength, i) ==
  IF i = 0
    THEN JsMod(writeIndex - targetLength, RingCapacity)
    ELSE JsMod(ReadIndex_NoWrap(targetLength, i - 1) + 1, RingCapacity)

\* read (osc-worker.js 15-23): readIndex at iteration i of the loop
RECURSIVE ReadIndex(_, _)
ReadIndex(targetLength, i) ==
  IF i = 0
    THEN JsMod(writeIndex - targetLength + RingCapacity, RingCapacity)
    ELSE JsMod(ReadIndex(targetLength, i - 1) + 1, RingCapacity)

\* this.buffer[readIndex]: undefined outside 0..length-1
BufferAt(readIndex) ==
  IF readIndex \in DOMAIN buffer THEN buffer[readIndex] ELSE NaN

\* read (osc-worker.js 15-23): what targetBuffer holds afterwards
ReadInto(targetLength) ==
  [i \in 0..(targetLength - 1) |-> BufferAt(ReadIndex(targetLength, i))]

\* -------------------------------------------------------------- OscRender
\* the message _getOscData posts (script.js 295-299)
DumpMessage(id, buf) == [message |-> "dump", buffer |-> buf, requestId |-> id]

\* _getOscData (script.js 286-305); ok = FALSE: port.postMessage throws
OscRender_getOscData(ok) ==
  /\ oscCounter < MaxRequests
  /\ LET requestId == oscCounter
         ordinal == Len(oscPromises) + 1
         bufferToFill == NewArrayBuffer(ordinal, OscBufferLen)
         registered == MapSet(oscPending, requestId, ordinal)
     IN /\ oscCounter' = PostIncrement(oscCounter)
        /\ IF ok
             THEN /\ oscPending' = MapSet(registered, requestId, ordinal)
                  /\ oscPortIn' =
                       Append(oscPortIn, DumpMessage(requestId, bufferToFill))
                  /\ oscPromises' =
                       Append(oscPromises,
                              [NewPromise(requestId) EXCEPT !.sent = TRUE])
                  /\ oscBuffers' =
                       Transfer(Allocate(oscBuffers, ordinal, "control"),
                                ordinal, "control")
             ELSE /\ oscPending' = registered
                  /\ oscPortIn' = oscPortIn
                  /\ oscPromises' = Append(oscPromises, NewPromise(requestId))
                  /\ oscBuffers' = Allocate(oscBuffers, ordinal, "control")
  /\ UNCHANGED <<oscWarnings, oscPortOut, oscStray, earVars, ringVars,
                 pairVars>>

\* mutant of OscHandled: a reply with an unknown id is given to the oldest
\* pending request
OscHandled_UnknownToOldest(data) ==
  IF Has(data, "message") /\ data.message = "data" /\ Has(data, "requestId")
    THEN LET id == IF data.requestId \in DOMAIN oscPending \/ oscPending = EmptyMap
                     THEN data.requestId ELSE Oldest(oscPending)
         IN IF id \in DOMAIN oscPending
              THEN /\ oscPending' = MapDelete(oscPending, id)
                   /\ oscPromises' =
                        [oscPromises EXCEPT ![oscPending[id]] =
                           Resolve(@, data.buffer)]
                   /\ oscWarnings' = oscWarnings
              ELSE /\ oscWarnings' = oscWarnings + 1
                   /\ UNCHANGED <<oscPending, oscPromises>>
    ELSE UNCHANGED <<oscPending, oscPromises, oscWarnings>>

\* what _handleWorkerMessage does with event.data = data (script.js 266-279)
OscHandled(data) ==
  IF Has(data, "message") /\ data.message = "data" /\ Has(data, "requestId")
    THEN IF data.requestId \in DOMAIN oscPending
           THEN /\ oscPending' = MapDelete(oscPending, data.requestId)
                /\ oscPromises' =
                     [oscPromises EXCEPT ![oscPending[data.requestId]] =
                        Resolve(@, data.buffer)]
                /\ oscWarnings' = oscWarnings
           ELSE /\ oscWarnings' = oscWarnings + 1
                /\ UNCHANGED <<oscPending, oscPromises>>
    ELSE UNCHANGED <<oscPending, oscPromises, oscWarnings>>

\* the port delivers its i-th queued message to _handleWorkerMessage
\* (script.js 233, 266-279)
OscRender_handleWorkerMessage(i) ==
  /\ i \in DOMAIN oscPortOut
  /\ OscHandled(oscPortOut[i])
  /\ oscPortOut' = RemoveAt(oscPortOut, i)
  /\ oscBuffers' = Receive(oscBuffers, oscPortOut[i].buffer.tag, "control")
  /\ UNCHANGED <<oscCounter, oscPortIn, oscStray, earVars, ringVars,
                 pairVars>>

\* a duplicate, stale or unknown reply arrives at OscRender's port
\* (the event of script.js 266-267)
OscStrayReply(data) ==
  /\ oscStray < MaxStray
  /\ oscStray' = oscStray + 1
  /\ oscPortOut' = Append(oscPortOut, data)
  /\ UNCHANGED <<oscCounter, oscPending, oscPromises, oscWarnings, oscPortIn,
                 oscBuffers, earVars, ringVars, pairVars>>

\* -------------------------------------------------------------- OscWorker
\* what handleMessage posts for event.data = data (osc-worker.js 34-47):
\* the sequence of messages it appends to the port. The request is tested
\* on its type key and the buffer on its length property.
OscWorkerReplies(data) ==
  IF Has(data, "type") /\ data.type = "dump"
    THEN IF /\ Has(data, "buffer")
            /\ Has(data.buffer, "length")
            /\ data.buffer.length > 0
           THEN <<[type |-> "dumped",
                   buffer |-> [data.buffer EXCEPT
                                 !.data = ReadInto(data.buffer.length)]]>>
           ELSE <<>>
    ELSE <<>>

\* the OscWorker handles the oldest queued request (osc-worker.js 31, 34-47)
OscWorker_handleMessage ==
  /\ oscPortIn # <<>>
  /\ oscPortOut' = oscPortOut \o OscWorkerReplies(Head(oscPortIn))
  /\ oscPortIn' = Tail(oscPortIn)
  /\ oscBuffers' = HandledOnRealtime(oscBuffers, Head(oscPortIn),
                                     OscWorkerReplies(Head(oscPortIn)))
  /\ UNCHANGED <<oscCounter, oscPending, oscPromises, oscWarnings, oscStray,
                 earVars, ringVars, pairVars>>

\* RotatingAudioBuffer.write(data) for an array data (osc-worker.js 8-13)
RotatingAudioBuffer_write(data) ==
  /\ Len(written) + Len(data) <= MaxWritten
  /\ LET after == WriteFrom(buffer, writeIndex, data, 1)
     IN /\ buffer' = after.buffer
        /\ writeIndex' = after.writeIndex
  /\ written' = written \o data
  /\ UNCHANGED <<targetBuffer, oscLastProcess, earVars, oscVars, pairVars>>

\* write (osc-worker.js 8-13) handed a number instead of an array: the
\* loop test i < data.length compares with undefined, is false, and no
\* slot is written
WriteNumber(buf, index, sample) == [buffer |-> buf, writeIndex |-> index]

\* mutant of OscWorker_process: input.length is not tested, so with no
\* channel the length of undefined is read and the call raises
OscWorker_process_NoChannelTest(input) ==
  /\ UNCHANGED <<buffer, writeIndex, written, targetBuffer, earVars, oscVars,
                 pairVars>>
  /\ oscLastProcess' =
       IF Len(input) = 0 THEN "TypeError"
       ELSE IF Len(input[1]) > 0 THEN "input" ELSE "no input"

\* OscWorker.process (osc-worker.js 49-59) with inputs[0] = input, the
\* sequence of the input's channels. monoInput = input[0][0] is the first
\* sample of the first channel, and that number is what write is handed.
OscWorker_process(input) ==
  /\ UNCHANGED <<written, targetBuffer, earVars, oscVars, pairVars>>
  /\ IF Len(input) > 0 /\ Len(input[1]) > 0
       THEN LET monoInput == input[1][1]
                after == WriteNumber(buffer, writeIndex, monoInput)
            IN /\ buffer' = after.buffer
               /\ writeIndex' = after.writeIndex
               /\ oscLastProcess' = "input"
       ELSE /\ UNCHANGED <<buffer, writeIndex>>
            /\ oscLastProcess' = "no input"

\* mutant of read: a consuming read, which zeroes every slot it copies
RotatingAudioBuffer_read_Consuming(targetLength) ==
  /\ UNCHANGED <<writeIndex, written, oscLastProcess, earVars, oscVars,
                 pairVars>>
  /\ targetBuffer' = ReadInto(targetLength)
  /\ buffer' =
       [j \in DOMAIN buffer |->
          IF \E i \in 0..(targetLength - 1) : ReadIndex(targetLength, i) = j
            THEN 0 ELSE buffer[j]]

\* RotatingAudioBuffer.read into a target of targetLength floats
\* (osc-worker.js 15-23)
RotatingAudioBuffer_read(targetLength) ==
  /\ UNCHANGED <<buffer, writeIndex, written, oscLastProcess, earVars, oscVars,
                 pairVars>>
  /\ targetBuffer' = ReadInto(targetLength)

\* ------------------------------------------------------------ render loops
\* The loops are async functions. "frame": the function is about to run
\* (its first call, or the animation-frame callback is scheduled);
\* "awaiting": it is suspended at its await; "stopped": it ended without
\* scheduling a frame. A continuation of await runs in the task that settled
\* the promise.

\* mutant of RenderLoop_call: the promise is not awaited, and the next
\* frame is scheduled as soon as the request is issued
RenderLoop_call_NoAwait(ok) ==
  /\ earLoop = "frame"
  /\ EarDataRequester_getEarPowerData(ok)
  /\ earLoop' = IF ok THEN "frame" ELSE "stopped"
  /\ UNCHANGED oscLoop

\* renderLoop up to its await (script.js 184-185): getEarPowerData() is
\* called; a promise rejected there makes await throw, and the function
\* ends before requestAnimationFrame (script.js 188)
RenderLoop_call(ok) ==
  /\ earLoop = "frame"
  /\ EarDataRequester_getEarPowerData(ok)
  /\ earLoop' = IF ok THEN "awaiting" ELSE "stopped"
  /\ UNCHANGED oscLoop

\* a message reaches the requester while renderLoop awaits; when it
\* resolves the awaited promise the loop renders and calls
\* requestAnimationFrame(renderLoop) (script.js 186-188)
RenderLoop_resume(i) ==
  /\ earLoop = "awaiting"
  /\ EarDataRequester_handleWorkerMessage(i)
  /\ earLoop' =
       IF RequestState(earPromises'[Len(earPromises')]) = "Resolved"
         THEN "frame" ELSE earLoop
  /\ UNCHANGED oscLoop

\* OscRender._renderLoop up to its await (script.js 238-242)
OscRender_renderLoop_call(ok) ==
  /\ oscLoop = "frame"
  /\ OscRender_getOscData(ok)
  /\ oscLoop' = "awaiting"
  /\ UNCHANGED earLoop

\* a message reaches OscRender while _renderLoop awaits; when it resolves
\* the awaited promise the loop draws and calls requestAnimationFrame
\* (script.js 244-263)
OscRender_renderLoop_resume(i) ==
  /\ oscLoop = "awaiting"
  /\ OscRender_handleWorkerMessage(i)
  /\ oscLoop' =
       IF RequestState(oscPromises'[Len(oscPromises')]) = "Resolved"
         THEN "frame" ELSE oscLoop
  /\ UNCHANGED earLoop

\* ------------------------------------------------------- specifications
\* sample values of an audio block
Samples == {1, 2}
\* blocks of at most n samples
RECURSIVE Blocks(_)
Blocks(n) ==
  IF n = 0 THEN {<<>>}
  ELSE Blocks(n - 1) \cup {Append(b, x) : b \in {c \in Blocks(n - 1) : Len(c) = n - 1}, x \in Samples}
\* what inputs[0] of a process call may be: no channel, or one channel
\* with a block of at most n samples
Inputs(n) == {<<>>} \cup {<<block>> : block \in Blocks(n)}

\* sample values handed to a DelayedIIRBandBoostFilterPair, and the notes and
\* sampling frequencies it is built for: f0 is 3520 Hz for note 105 and
\* 4186 Hz for note 108, below, at and above half the sampling frequency
PairSamples == {0 - 8, 8}
PairNotes == {105, 108}
PairRates == {7040, 8000, 44100}

\* script.js 347-348 builds the EarDataRequester and the OscRender on
\* different nodes and ports, and the RotatingAudioBuffer is private to the
\* OscWorker. A behaviour follows one of: the two protocol objects with any
\* caller; the EarProcessor with its process callback; the ring with its
\* callers; one estimator of the bank; the two protocol objects with their
\* render loop as the only caller (script.js 350, 235).
Components ==
  {"EarDataRequester", "EarProcessor", "OscRender", "RotatingAudioBuffer",
   "DelayedIIRBandBoostFilterPair", "renderLoop", "OscRender._renderLoop"}

Init ==
  /\ component \in Components
  /\ earCounter = 0
  /\ earPending = EmptyMap
  /\ earOnmessage = TRUE
  /\ earPromises = <<>>
  /\ earWarnings = 0
  /\ earPortIn = <<>>
  /\ earPortOut = <<>>
  /\ earStray = 0
  /\ earBuffers = EmptyMap
  /\ earLastProcess = "no call"
  /\ filters = [i \in 0..(NumFilters - 1) |->
                  [midiNoteNumber |-> i + 21, powerMean |-> 0]]
  /\ processed = 0
  /\ oscCounter = 0
  /\ oscPending = EmptyMap
  /\ oscPromises = <<>>
  /\ oscWarnings = 0
  /\ oscPortIn = <<>>
  /\ oscPortOut = <<>>
  /\ oscStray = 0
  /\ oscBuffers = EmptyMap
  /\ oscLastProcess = "no call"
  /\ pair = [constructed |-> FALSE]
  /\ pairInputs = <<>>
  /\ earLoop = "frame"
  /\ oscLoop = "frame"
  /\ buffer = Zeros(RingCapacity)
  /\ writeIndex = 0
  /\ written = <<>>
  /\ targetBuffer = <<>>

\* a step of what the behaviour follows; InLoop: a step of a render loop,
\* On: any other step, which leaves the loops where they are
InLoop(c) == component = c /\ component' = c
On(c) == InLoop(c) /\ UNCHANGED loopVars

Next ==
  \/ \E ok \in BOOLEAN :
       On("EarDataRequester") /\ EarDataRequester_getEarPowerData(ok)
  \/ \E i \in DOMAIN earPortOut :
       On("EarDataRequester") /\ EarDataRequester_handleWorkerMessage(i)
  \/ \E i \in DOMAIN earPortOut :
       On("EarDataRequester") /\ EarPortNoListener(i)
  \/ On("EarDataRequester") /\ EarDataRequester_destroy
  \/ \E data \in StrayReplies :
       On("EarDataRequester") /\ EarStrayReply(data)
  \/ On("EarDataRequester") /\ EarProcessor_onmessage
  \/ \E ok \in {TRUE} :
       On("EarProcessor") /\ EarDataRequester_getEarPowerData(ok)
  \/ On("EarProcessor") /\ EarProcessor_onmessage
  \/ \E input \in Inputs(MaxBlockLen) :
       On("EarProcessor") /\ EarProcessor_process(input)
  \/ \E ok \in BOOLEAN : On("OscRender") /\ OscRender_getOscData(ok)
  \/ \E i \in DOMAIN oscPortOut :
       On("OscRender") /\ OscRender_handleWorkerMessage(i)
  \/ \E data \in StrayReplies : On("OscRender") /\ OscStrayReply(data)
  \/ On("OscRender") /\ OscWorker_handleMessage
  \/ \E data \in Blocks(RingCapacity + 1) :
       On("RotatingAudioBuffer") /\ RotatingAudioBuffer_write(data)
  \/ \E targetLength \in 0..(RingCapacity + 1) :
       On("RotatingAudioBuffer") /\ RotatingAudioBuffer_read(targetLength)
  \/ \E input \in Inputs(MaxBlockLen) :
       On("RotatingAudioBuffer") /\ OscWorker_process(input)
  \/ \E midiNoteNumber \in PairNotes, samplingFrequency \in PairRates :
       /\ On("DelayedIIRBandBoostFilterPair")
       /\ DelayedIIRBandBoostFilterPair_constructor(midiNoteNumber,
                                                    samplingFrequency)
  \/ \E inputSample \in PairSamples :
       /\ On("DelayedIIRBandBoostFilterPair")
       /\ DelayedIIRBandBoostFilterPair_process(inputSample)
  \/ \E ok \in BOOLEAN : InLoop("renderLoop") /\ RenderLoop_call(ok)
  \/ \E i \in DOMAIN earPortOut :
       InLoop("renderLoop") /\ RenderLoop_resume(i)
  \/ On("renderLoop") /\ EarProcessor_onmessage
  \/ \E ok \in BOOLEAN :
       InLoop("OscRender._renderLoop") /\ OscRender_renderLoop_call(ok)
  \/ \E i \in DOMAIN oscPortOut :
       InLoop("OscRender._renderLoop") /\ OscRender_renderLoop_resume(i)
  \/ On("OscRender._renderLoop") /\ OscWorker_handleMessage
  \/ \E data \in StrayReplies :
       On("OscRender._renderLoop") /\ OscStrayReply(data)

Spec == Init /\ [][Next]_vars

\* the transport delivers every posted message and the message handlers of
\* both threads run
Fairness ==
  /\ WF_vars(On("EarDataRequester") /\ EarProcessor_onmessage)
  /\ WF_vars(\E i \in DOMAIN earPortOut :
               On("EarDataRequester") /\ EarDataRequester_handleWorkerMessage(i))
  /\ WF_vars(\E i \in DOMAIN earPortOut :
               On("EarDataRequester") /\ EarPortNoListener(i))
  /\ WF_vars(On("OscRender") /\ OscWorker_handleMessage)
  /\ WF_vars(\E i \in DOMAIN oscPortOut :
               On("OscRender") /\ OscRender_handleWorkerMessage(i))
  /\ WF_vars(On("renderLoop") /\ EarProcessor_onmessage)
  /\ WF_vars(\E i \in DOMAIN earPortOut :
               InLoop("renderLoop") /\ RenderLoop_resume(i))
  /\ WF_vars(On("OscRender._renderLoop") /\ OscWorker_handleMessage)
  /\ WF_vars(\E i \in DOMAIN oscPortOut :
               InLoop("OscRender._renderLoop") /\ OscRender_renderLoop_resume(i))

FairSpec == Spec /\ Fairness

\* ------------------------------------------------------------------ claims
Settled(p) == RequestState(p) \in {"Resolved", "Rejected"}
ResolvedWith(buf) == <<[kind |-> "resolve", value |-> buf]>>
RejectedWith(error) == <<[kind |-> "reject", value |-> error]>>
Destroyed == Error("EarDataRequester instance was destroyed.")

\* C1: no promise returned by getEarPowerData is settled more than once,
\* whatever replies (duplicate, stale, late), send failures and destroy()
\* calls occur: at most one resolve or reject call is ever made on it.
C1_SettledAtMostOnce ==
  \A k \in DOMAIN earPromises : Len(earPromises[k].settled) <= 1

\* a request was resolved by one reply and a second reply with its id was
\* handled and dropped afterwards
C1_Witness ==
  /\ earOnmessage
  /\ earWarnings = 1
  /\ earPortIn = <<>> /\ earPortOut = <<>>
  /\ earStray = 1
  /\ \E k \in DOMAIN earPromises :
       /\ earPromises[k].settled = ResolvedWith(NewArrayBuffer(0, NumFilters))
       /\ \A j \in DOMAIN earPromises : j # k => earPromises[j].settled = <<>>

\* C3: destroy() with k >= 0 outstanding requests rejects every one of them
\* with the 'destroyed' error and leaves pendingRequests empty.
C3_DestroyRejectsAll ==
  [][EarDataRequester_destroy =>
       /\ earPending' = EmptyMap
       /\ \A k \in DOMAIN earPromises :
            ~Settled(earPromises[k]) =>
              earPromises'[k].settled = RejectedWith(Destroyed)]_vars

\* destroy() ran with two requests outstanding and rejected both
C3_Witness ==
  /\ ~earOnmessage
  /\ earPending = EmptyMap
  /\ Len(earPromises) = 2
  /\ \A k \in DOMAIN earPromises :
       earPromises[k].sent /\ earPromises[k].settled = RejectedWith(Destroyed)

\* C4: with several power-snapshot requests outstanding, a reply handled in
\* any order resolves exactly the promise of the request with the reply's
\* id, with the buffer that reply carries, and leaves every other pending
\* entry and promise as it was.
C4_ReplyResolvesOwnRequest ==
  [][\A i \in DOMAIN earPortOut :
       LET data == earPortOut[i] IN
       (/\ EarDataRequester_handleWorkerMessage(i)
        /\ data.message = "data"
        /\ data.requestId \in DOMAIN earPending)
       => /\ \A k \in DOMAIN earPromises :
               IF earPromises[k].requestId = data.requestId
                 THEN earPromises'[k].settled = ResolvedWith(data.buffer)
                 ELSE earPromises'[k] = earPromises[k]
          /\ DOMAIN earPending' = DOMAIN earPending \ {data.requestId}
          /\ \A id \in DOMAIN earPending' : earPending'[id] = earPending[id]
    ]_vars

\* two requests were outstanding at once and the reply to the second was
\* handled while the reply to the first is still queued
C4_Witness ==
  /\ Len(earPromises) = 2
  /\ RequestState(earPromises[1]) = "Sent"
  /\ DOMAIN earPending = {earPromises[1].requestId}
  /\ \E i \in DOMAIN earPortOut :
       /\ earPortOut[i].requestId = earPromises[1].requestId
       /\ earPortOut[i].buffer.tag = 1
  /\ RequestState(earPromises[2]) = "Resolved"
  /\ earPromises[2].settled[1].value.tag = 2

\* the reply data names no entry of the map pending
UnknownId(data, pending) ==
  Has(data, "requestId") /\ data.requestId \notin DOMAIN pending

\* C5: handling a reply whose requestId is not in pendingRequests settles no
\* promise and leaves pendingRequests and requestIdCounter unchanged; the
\* other queued replies and the listener stay, so the requests in flight can
\* still be resolved. Both for EarDataRequester and for OscRender.
C5_UnknownReplyDropped ==
  [][/\ \A i \in DOMAIN earPortOut :
          (EarDataRequester_handleWorkerMessage(i)
             /\ UnknownId(earPortOut[i], earPending))
          => /\ UNCHANGED <<earPending, earCounter, earPromises, earOnmessage>>
             /\ earPortOut' = RemoveAt(earPortOut, i)
     /\ \A i \in DOMAIN oscPortOut :
          (OscRender_handleWorkerMessage(i)
             /\ UnknownId(oscPortOut[i], oscPending))
          => /\ UNCHANGED <<oscPending, oscCounter, oscPromises>>
             /\ oscPortOut' = RemoveAt(oscPortOut, i)
    ]_vars

\* a reply with an unknown id was handled while a request was in flight,
\* and that request is still pending with its reply on the way
C5_Witness ==
  /\ earWarnings = 1
  /\ earPortOut = <<>>
  /\ earOnmessage
  /\ \E k \in DOMAIN earPromises :
       /\ RequestState(earPromises[k]) = "Sent"
       /\ earPromises[k].requestId \in DOMAIN earPending
       /\ \E j \in DOMAIN earPortIn :
            earPortIn[j].requestId = earPromises[k].requestId

\* C6: when port.postMessage throws, the request is rejected at once, is
\* not in pendingRequests and is not sent again; for getEarPowerData and
\* for _getOscData. (A promise with sent = FALSE is one whose send threw.)
C6_SendFailureRejects ==
  /\ \A k \in DOMAIN earPromises :
       ~earPromises[k].sent =>
         /\ earPromises[k].settled = RejectedWith(SendError)
         /\ earPromises[k].requestId \notin DOMAIN earPending
         /\ \A j \in DOMAIN earPortIn :
              earPortIn[j].requestId # earPromises[k].requestId
  /\ \A k \in DOMAIN oscPromises :
       ~oscPromises[k].sent =>
         /\ RequestState(oscPromises[k]) = "Rejected"
         /\ oscPromises[k].requestId \notin DOMAIN oscPending
         /\ \A j \in DOMAIN oscPortIn :
              oscPortIn[j].requestId # oscPromises[k].requestId

\* C7: once destroy() has run, no request is accepted: no entry is added to
\* pendingRequests and no request enters the Sent state.
C7_NoRequestAfterDestroy ==
  [][~earOnmessage =>
       /\ DOMAIN earPending' \subseteq DOMAIN earPending
       /\ \A k \in DOMAIN earPromises' :
            RequestState(earPromises'[k]) = "Sent" => k \in DOMAIN earPromises
    ]_vars

\* C8: for every request with a buffer that the real-time side handles, it
\* posts exactly one response, with the request's id and the request's
\* buffer; for the EarProcessor and for the OscWorker.
C8_OneResponsePerRequest ==
  [][/\ (EarProcessor_onmessage /\ Has(Head(earPortIn), "buffer")) =>
          /\ Len(earPortOut') = Len(earPortOut) + 1
          /\ earPortOut'[Len(earPortOut')].requestId = Head(earPortIn).requestId
          /\ earPortOut'[Len(earPortOut')].buffer.tag = Head(earPortIn).buffer.tag
     /\ (OscWorker_handleMessage /\ Has(Head(oscPortIn), "buffer")) =>
          /\ Len(oscPortOut') = Len(oscPortOut) + 1
          /\ Has(oscPortOut'[Len(oscPortOut')], "requestId")
          /\ oscPortOut'[Len(oscPortOut')].requestId = Head(oscPortIn).requestId
          /\ oscPortOut'[Len(oscPortOut')].buffer.tag = Head(oscPortIn).buffer.tag
    ]_vars

\* capacity zeros followed by every sample written so far
History == [i \in 1..RingCapacity |-> 0] \o written
\* the last n elements of History, indexed from 0
MostRecent(n) == [i \in 0..(n - 1) |-> History[Len(History) - n + i + 1]]

\* C9: after any sequence of writes, read into a target of length
\* L <= capacity fills it with the last L elements of History: the most
\* recent L samples, oldest first, zeros standing for samples not written.
C9_ReadMostRecent ==
  [][\A targetLength \in 0..RingCapacity :
       RotatingAudioBuffer_read(targetLength) =>
         targetBuffer' = MostRecent(targetLength)]_vars

\* a read of a shorter target after the ring wrapped, with the samples not
\* all equal
C9_Witness ==
  /\ Len(written) > RingCapacity
  /\ writeIndex # 0
  /\ DOMAIN targetBuffer = 0..(RingCapacity - 2)
  /\ targetBuffer = MostRecent(RingCapacity - 1)
  /\ targetBuffer[0] # targetBuffer[RingCapacity - 2]

\* C10: read leaves the ring as it was, for any target length: the stored
\* samples and writeIndex are unchanged, so a second read returns the same
\* data and the next write goes to the same slot.
C10_ReadKeepsRing ==
  [][\A targetLength \in 0..(RingCapacity + 1) :
       RotatingAudioBuffer_read(targetLength) =>
         /\ buffer' = buffer
         /\ writeIndex' = writeIndex
         /\ ReadInto(targetLength)' = targetBuffer']_vars

\* a read of the whole ring after samples were written
C10_Witness ==
  /\ written # <<>>
  /\ buffer # Zeros(RingCapacity)
  /\ DOMAIN targetBuffer = DOMAIN buffer
  /\ targetBuffer = ReadInto(RingCapacity)

\* the k-th promise of the sequence promises is in state Sent / is settled
IsSent(promises, k) ==
  k \in DOMAIN promises /\ RequestState(promises[k]) = "Sent"
IsSettled(promises, k) == k \in DOMAIN promises /\ Settled(promises[k])

\* C2: every snapshot request of either kind that has been sent is
\* eventually Resolved or Rejected, given that messages are delivered and
\* the handlers run.
C2_SentEventuallySettled ==
  \A k \in 1..MaxRequests :
    /\ IsSent(oscPromises, k) ~> IsSettled(oscPromises, k)
    /\ IsSent(earPromises, k) ~> IsSettled(earPromises, k)

\* the tags of the buffers carried by the messages queued in port
InFlight(port) == {port[j].buffer.tag : j \in DOMAIN port}
\* the buffers in access that a request allocated (tag 0 is a stray reply's)
SnapshotBuffers(access) == DOMAIN access \ {0}
\* no buffer is attached on two threads, and none on any while in flight
OneSide(access, portIn, portOut) ==
  \A tag \in SnapshotBuffers(access) :
    /\ Cardinality(access[tag]) <= 1
    /\ tag \in InFlight(portIn) \cup InFlight(portOut) => access[tag] = {}

\* C11: at every moment each snapshot buffer is accessible to at most one
\* side: once the control thread has sent the request it cannot reach the
\* buffer until the reply is delivered, once the real-time side has posted
\* the reply it cannot reach it, and never both; for both protocols.
C11_BufferOnOneSide ==
  /\ OneSide(earBuffers, earPortIn, earPortOut)
  /\ OneSide(oscBuffers, oscPortIn, oscPortOut)

\* the reply to the first request was delivered, so its buffer is back on
\* the control thread, while the buffer of the second is in the reply the
\* EarProcessor has just posted
C11_Witness ==
  /\ Len(earPromises) = 2
  /\ RequestState(earPromises[1]) = "Resolved"
  /\ earPromises[1].settled[1].value.tag = 1
  /\ earBuffers[1] = {"control"}
  /\ earPortIn = <<>>
  /\ InFlight(earPortOut) = {2}
  /\ earBuffers[2] = {}

\* inputs[0] = input has no channel, or its first channel has no sample
NoInput(input) == Len(input) = 0 \/ Len(input[1]) = 0

\* C12: a process call with no input channel or with an empty block returns
\* normally and changes nothing: EarProcessor.process leaves every
\* estimator as it was, OscWorker.process leaves the ring as it was.
C12_NoInputIsNoOp ==
  [][\A input \in Inputs(MaxBlockLen) :
       NoInput(input) =>
         /\ EarProcessor_process(input) =>
              /\ filters' = filters
              /\ processed' = processed
              /\ earLastProcess' = "no input"
         /\ OscWorker_process(input) =>
              /\ buffer' = buffer
              /\ writeIndex' = writeIndex
              /\ written' = written
              /\ oscLastProcess' = "no input"]_vars

\* the EarProcessor was called without input after it had processed
\* samples, with the estimators no longer in their initial state
C12_Witness ==
  /\ earLastProcess = "no input"
  /\ processed > 0
  /\ \A i \in DOMAIN filters : getInstantPower(filters[i]) # 0

\* C13: a render loop tolerates a delayed, dropped or failed reply: it is
\* never stopped for good, and whenever it waits for a snapshot it
\* eventually schedules a further frame (from which it issues the next
\* request), also when the reply never arrives or the request is rejected;
\* for renderLoop and for OscRender._renderLoop.
C13_LoopGoesOn ==
  /\ (oscLoop = "awaiting") ~> (oscLoop = "frame")
  /\ (earLoop = "awaiting") ~> (earLoop = "frame")
  /\ [](earLoop # "stopped")

\* C14: the reply to a power-snapshot request holds at index i the smoothed
\* power of filters[i] at the time the request is handled, filters[i] being
\* the estimator for MIDI note 21 + i, and handling the request changes no
\* estimator.
C14_ReplyHoldsBankPowers ==
  [][(EarProcessor_onmessage /\ Has(Head(earPortIn), "buffer")) =>
       /\ Len(earPortOut') = Len(earPortOut) + 1
       /\ \A i \in 0..(NumFilters - 1) :
            /\ earPortOut'[Len(earPortOut')].buffer.data[i] =
                 filters[i].powerMean
            /\ filters[i].midiNoteNumber = 21 + i
       /\ filters' = filters
       /\ processed' = processed]_vars

\* a request was handled after samples went through the bank: its reply
\* is queued with the powers of the filters, which differ, and the bank is
\* as it was
C14_Witness ==
  /\ processed > 0
  /\ \E j \in DOMAIN earPortOut :
       /\ earPortOut[j].message = "data"
       /\ earPortOut[j].buffer.tag > 0
       /\ \A i \in 0..(NumFilters - 1) :
            earPortOut[j].buffer.data[i] = filters[i].powerMean
       /\ earPortOut[j].buffer.data[0] # earPortOut[j].buffer.data[1]

\* C15: an IIRBandBoostFilter whose center frequency is <= 0 or >=
\* sampleRate / 2 is the identity: process(x) returns x for every sample x,
\* after any sequence of earlier process calls. (filter1 of a pair is handed
\* every input; filter2 the delayed one, which it keeps in x1.)
C15_OutOfRangeFilterIsIdentity ==
  (/\ pair.constructed
   /\ OutOfRange(pair.midiNoteNumber, pair.Fs)
   /\ pairInputs # <<>>)
  => /\ pair.filter1Out = pairInputs[Len(pairInputs)]
     /\ ~IsNaN(pair.filter2.x1) => pair.filter2Out = pair.filter2.x1

\* a filter with f0 = sampleRate / 2 returned two different samples in
\* turn: filter1 the second input, filter2 the first, one call late
C15_Witness ==
  /\ pair.constructed
  /\ 2 * F0(pair.midiNoteNumber) = pair.Fs * 1000
  /\ Len(pairInputs) = 2
  /\ pairInputs[1] # pairInputs[2]
  /\ pair.filter1Out = pairInputs[2]
  /\ pair.filter2Out = pairInputs[1]

\* C16: after any sequence of DelayedIIRBandBoostFilterPair.process calls on
\* finite samples, getInstantPower() is a number >= 0: it is 0 at
\* construction and every update keeps it non-negative.
C16_PowerNonNegative ==
  pair.constructed =>
    /\ ~IsNaN(getInstantPower(pair))
    /\ getInstantPower(pair) >= 0

\* the ids of the requests, in issue order, increase strictly
StrictlyIncreasing(promises) ==
  \A j, k \in DOMAIN promises :
    j < k => promises[j].requestId < promises[k].requestId

\* C17: the request ids one protocol object issues are strictly increasing
\* in issue order, so no two requests share an id: the counter has been
\* increased by exactly one per request made, failed sends included, and is
\* above every id issued; for EarDataRequester and for OscRender.
C17_IdsStrictlyIncreasing ==
  /\ StrictlyIncreasing(earPromises)
  /\ earCounter = Len(earPromises)
  /\ \A k \in DOMAIN earPromises : earPromises[k].requestId < earCounter
  /\ StrictlyIncreasing(oscPromises)
  /\ oscCounter = Len(oscPromises)
  /\ \A k \in DOMAIN oscPromises : oscPromises[k].requestId < oscCounter

\* a request whose send failed was followed by one that was sent, with the
\* next id
C17_Witness ==
  /\ Len(earPromises) = 2
  /\ ~earPromises[1].sent
  /\ earPromises[2].sent
  /\ earPromises[2].requestId = earPromises[1].requestId + 1
  /\ earCounter = 2

\* C18: in a DelayedIIRBandBoostFilterPair whose delay line has length
\* D >= 1, the sample handed to filter2 by the t-th process call is the
\* input of the call D calls earlier, and 0 for the first D calls; filter1
\* is handed the current input; the delay cursor stays in 0..D-1. (A filter
\* keeps the sample it was last handed in x1.)
C18_Filter2FedDelayedInput ==
  LET D == ArrayLength(pair.delayBuffer)
      t == Len(pairInputs)
  IN (pair.constructed /\ D >= 1) =>
       /\ pair.delayIndex \in 0..(D - 1)
       /\ t >= 1 =>
            /\ pair.filter1.x1 = pairInputs[t]
            /\ pair.filter2.x1 = IF t - D >= 1 THEN pairInputs[t - D] ELSE 0

\* a pair with a delay line of three samples after five calls: filter2 was
\* last handed the second input, which differs from the first and the third
C18_Witness ==
  /\ pair.constructed
  /\ ArrayLength(pair.delayBuffer) = 3
  /\ Len(pairInputs) = 5
  /\ pairInputs[2] # pairInputs[1]
  /\ pairInputs[2] # pairInputs[3]
  /\ pair.filter2.x1 = pairInputs[2]
  /\ pair.filter1.x1 = pairInputs[5]
  /\ pair.delayIndex = 2

\* C19: the delay line of a DelayedIIRBandBoostFilterPair has length >= 1
\* (a rounded quarter wavelength of 0 is clamped to 1), so the delay cursor
\* is an index of it and the sample handed to filter2 is always defined.
C19_DelayLineNotEmpty ==
  pair.constructed =>
    /\ ArrayLength(pair.delayBuffer) >= 1
    /\ pair.delayIndex \in DOMAIN pair.delayBuffer
    /\ ~IsNaN(pair.filter2.x1)

\* the ids of the requests that were sent and are neither resolved nor
\* rejected
Outstanding(promises) ==
  {promises[k].requestId :
     k \in {j \in DOMAIN promises : RequestState(promises[j]) = "Sent"}}

\* C20: the keys of pendingRequests of the EarDataRequester are exactly the
\* ids of the requests issued whose send did not fail and that are not yet
\* resolved or rejected; every key is below requestIdCounter and maps to
\* the promise of that request, so the id of a settled request is never a
\* key again.
C20_PendingIsOutstanding ==
  /\ DOMAIN earPending = Outstanding(earPromises)
  /\ \A id \in DOMAIN earPending :
       /\ id < earCounter
       /\ earPromises[earPending[id]].requestId = id

\* of two requests the first is resolved and the second still in flight:
\* the second id is the only key
C20_Witness ==
  /\ Len(earPromises) = 2
  /\ RequestState(earPromises[1]) = "Resolved"
  /\ RequestState(earPromises[2]) = "Sent"
  /\ earPromises[1].settled[1].value.tag = 1
  /\ DOMAIN earPending = {earPromises[2].requestId}

\* C21: a power snapshot is consistent with respect to audio processing: the
\* handler that fills the buffer runs between process calls, so all the
\* values of one reply reflect the same number of processed input samples,
\* and no reply mixes values from before and after a block.
\* SamplesBehind: the numbers of processed samples all the values of a reply
\* agree on (filter i holds numSamples times its note number after
\* numSamples samples).
SamplesBehind(reply) ==
  {numSamples \in 0..MaxSamples :
     \A i \in 0..(NumFilters - 1) :
       reply.buffer.data[i] = numSamples * (21 + i)}

C21_SnapshotOfOneInstant ==
  \A j \in DOMAIN earPortOut :
    earPortOut[j].message = "data" =>
      /\ SamplesBehind(earPortOut[j]) # {}
      /\ \A numSamples \in SamplesBehind(earPortOut[j]) :
           numSamples <= processed

\* two requests were handled, one before and one after a block went through
\* the bank: each reply is of one instant, and the instants differ
C21_Witness ==
  /\ component = "EarProcessor"
  /\ Len(earPortOut) = 2
  /\ earLastProcess = "input"
  /\ SamplesBehind(earPortOut[1]) = {0}
  /\ SamplesBehind(earPortOut[2]) = {processed}
  /\ processed > 0

\* C22: each render loop (renderLoop, OscRender._renderLoop) issues its
\* next snapshot request only after the previous one has resolved, so when
\* the loop is the only caller its protocol object never has more than one
\* outstanding request and pendingRequests never holds more than one entry.
Unsettled(promises) == {k \in DOMAIN promises : ~Settled(promises[k])}

OneRequestAtMost(loop, promises, pending) ==
  /\ Cardinality(Unsettled(promises)) <= 1
  /\ Cardinality(DOMAIN pending) <= 1
  /\ loop = "frame" =>
       \A k \in DOMAIN promises : RequestState(promises[k]) = "Resolved"

C22_LoopHasOneRequestAtMost ==
  /\ component = "renderLoop" =>
       OneRequestAtMost(earLoop, earPromises, earPending)
  /\ component = "OscRender._renderLoop" =>
       OneRequestAtMost(oscLoop, oscPromises, oscPending)

\* renderLoop awaits its second request after the first was resolved: the
\* second is the only entry of pendingRequests
C22_Witness ==
  /\ component = "renderLoop"
  /\ earLoop = "awaiting"
  /\ Len(earPromises) = 2
  /\ RequestState(earPromises[1]) = "Resolved"
  /\ Unsettled(earPromises) = {2}
  /\ DOMAIN earPending = {earPromises[2].requestId}

\* C23: in a RotatingAudioBuffer of capacity >= 1, writeIndex is in
\* 0..capacity-1 in every reachable state, and during a read into a target
\* of length L <= capacity every index used to access the buffer is in
\* 0..capacity-1: no out-of-range slot is read or written.
Slots == 0..(RingCapacity - 1)

C23_IndicesInRange ==
  /\ writeIndex \in Slots
  /\ DOMAIN buffer = Slots
  /\ \A targetLength \in 0..RingCapacity :
       \A i \in 0..(targetLength - 1) : ReadIndex(targetLength, i) \in Slots
  /\ ArrayLength(targetBuffer) <= RingCapacity =>
       \A i \in DOMAIN targetBuffer : ~IsNaN(targetBuffer[i])

\* the writes went round the ring and stopped inside it, and a read of the
\* whole capacity, which starts inside the ring and wraps, was made
C23_Witness ==
  /\ component = "RotatingAudioBuffer"
  /\ Len(written) > RingCapacity
  /\ writeIndex > 0
  /\ ArrayLength(targetBuffer) = RingCapacity
  /\ ReadIndex(RingCapacity, 0) = writeIndex
  /\ ReadIndex(RingCapacity, RingCapacity - 1) = writeIndex - 1
  /\ targetBuffer = MostRecent(RingCapacity)

====
